---- MODULE Spec2Model ----
(***************************************************************************)
(* Model of the MOSIP notification system (src/Mainfile.py): the inbound   *)
(* endpoint send_expiry_alert, NotificationService.send_notification, the  *)
(* three channel senders and the localisation store.                        *)
(*                                                                         *)
(* Two specifications share the dispatcher's definitions:                  *)
(*   SpecService  NotificationService over an arbitrary registry whose     *)
(*                senders are stand-ins that return true, return false or  *)
(*                raise;                                                   *)
(*   Spec         the application: send_expiry_alert, the dispatcher, and  *)
(*                WhatsAppSender / TelegramSender / ViberSender posting to *)
(*                their providers.                                         *)
(*                                                                         *)
(* Python values: None is the string None below, a bool returned by a      *)
(* function is "True" / "False", and "raise" is an exception leaving it.   *)
(***************************************************************************)
EXTENDS Integers, Sequences, FiniteSets, TLC

VARIABLES
    pc,               \* where the one thread of control is
    senders,          \* NotificationService.senders: the channels that have a sender
    config,           \* the credentials the senders were constructed with
    jsonErrorCaught,  \* whether response.json()'s error is a RequestException
    data,             \* the inbound JSON body of send_expiry_alert
    request,          \* the NotificationRequest being dispatched
    idx,              \* position of the for-loop in request.channels
    overall_success,  \* send_notification's local
    calls,            \* sender.send invocations so far, in order, with their posts
    result,           \* what send_notification did: "True", "False", "raised"
    response,         \* status code send_expiry_alert answered with, 0 = none yet
    message           \* a call of get_localized_message and what it did

vars == <<pc, senders, config, jsonErrorCaught, data, request, idx,
          overall_success, calls, result, response, message>>

None == "<None>"

\* bool(v) of an Optional[str]
Truthy(v) == v # None /\ v # ""

-----------------------------------------------------------------------------
(* Bounds *)

\* longest request.channels handed to the dispatcher in SpecService
MaxChannels == 3

\* most positional arguments handed to get_localized_message in SpecMessages
MaxArgs == 4

-----------------------------------------------------------------------------
(* notification_core.py *)

NotificationChannel == {"EMAIL", "SMS", "WHATSAPP", "TELEGRAM", "VIBER"}

\* what a sender's send can do, seen from the dispatcher
SendOutcome == {"True", "False", "raise"}

RECURSIVE SeqsUpTo(_, _)
SeqsUpTo(S, n) ==
    IF n = 0 THEN {<<>>}
    ELSE LET shorter == SeqsUpTo(S, n - 1)
         IN  shorter \cup {Append(s, x) : s \in {t \in shorter : Len(t) = n - 1}, x \in S}

\* the dataclass: fields and their declared defaults
NotificationRequest(phone, chat, viber, etype, edate, steps, channels, locale) ==
    [recipient_phone_number |-> phone,
     telegram_chat_id       |-> chat,
     viber_user_id          |-> viber,
     expiry_type            |-> etype,
     expiry_date            |-> edate,
     action_steps           |-> steps,
     channels               |-> channels,
     locale                 |-> locale]

DefaultExpiryType == "Certificate"
DefaultActionSteps == "Please renew your credential."
DefaultLocale == "en"

\* a datetime.date, or None
NoDate == [y |-> 0, m |-> 0, d |-> 0]

\* a request that names channels only; every other field at its default
RequestOf(channels) ==
    NotificationRequest(None, None, None, DefaultExpiryType, NoDate,
                        DefaultActionSteps, channels, DefaultLocale)

NoRequest == RequestOf(<<>>)

\* line 216
InitialSuccess == FALSE

\* line 217: not request.channels
NoChannels(channels) == Len(channels) = 0

\* the early return answering true
EmptyChannelsResultTrue == "True"

\* line 219
EmptyChannelsResult == "False"

\* lines 222-223: sender = self.senders.get(channel); if sender
HasSender(registry, channel) == channel \in registry

\* sender.send called with no try around it
Unguarded(outcome) == outcome

\* lines 225-233: the try around sender.send; an exception is that channel's failure
Guarded(outcome) == IF outcome = "raise" THEN "False" ELSE outcome

\* the last attempt decides
AggregateLast(overall, sent) == sent = "True"

\* lines 227-228
Aggregate(overall, sent) == overall \/ (sent = "True")

\* line 221: the channel the loop is at
ChannelAt(channels, i) == channels[i]

\* the loop stopping at the first success
LoopDoneOnSuccess(channels, i, overall) == i > Len(channels) \/ overall

\* line 221: the loop has run off the end of request.channels
LoopDone(channels, i, overall) == i > Len(channels)

\* send_notification up to the loop, lines 216-219
EnterSendNotification(req) ==
    /\ request' = req
    /\ overall_success' = InitialSuccess
    /\ idx' = 1
    /\ IF NoChannels(req.channels)
       THEN /\ pc' = "done"
            /\ result' = EmptyChannelsResult
       ELSE /\ pc' = "loop"
            /\ UNCHANGED result

\* an entry of the call log: the sender called, what its send did, and the
\* requests.post calls it made
Call(channel, outcome, posted) ==
    [channel |-> channel, outcome |-> outcome, posted |-> posted]

\* one pass of the loop body, lines 221-235, where sender.send(request), when it
\* is called, does `outcome` and posts `posted`
LoopBody(outcome, posted) ==
    /\ pc = "loop"
    /\ ~LoopDone(request.channels, idx, overall_success)
    /\ LET channel == ChannelAt(request.channels, idx)
       IN  IF HasSender(senders, channel)
           THEN /\ calls' = Append(calls, Call(channel, outcome, posted))
                /\ IF Guarded(outcome) = "raise"
                   THEN /\ pc' = "raised"
                        /\ result' = "raised"
                        /\ UNCHANGED <<idx, overall_success>>
                   ELSE /\ overall_success' = Aggregate(overall_success, Guarded(outcome))
                        /\ idx' = idx + 1
                        /\ UNCHANGED <<pc, result>>
           ELSE /\ idx' = idx + 1
                /\ UNCHANGED <<calls, overall_success, pc, result>>
    /\ UNCHANGED <<senders, config, jsonErrorCaught, data, request, response,
                   message>>

\* line 236
ReturnOverall ==
    /\ pc = "loop"
    /\ LoopDone(request.channels, idx, overall_success)
    /\ result' = (IF overall_success THEN "True" ELSE "False")

-----------------------------------------------------------------------------
(* messages/__init__.py and messages/en.py *)

\* str(v), as str.format renders an argument
PyStr(v) == IF v = None THEN "None" ELSE v

\* a template is its literal pieces, with Hole for each "{}"
Hole == "{}"

MESSAGES_en ==
    ("whatsapp.expiry.message" :>
        <<"Dear User, your ", Hole, " will expire on ", Hole,
          ". Please take the following action: ", Hole, ".">>)
    @@ ("telegram.expiry.message" :>
        <<"Alert: Your ", Hole, " expires on ", Hole, ". Action required: ", Hole, ".">>)
    @@ ("viber.expiry.message" :>
        <<"Important: ", Hole, " expires ", Hole, ". Next steps: ", Hole, ".">>)

\* _messages: only "en" is loaded, "fr" is commented out
Messages == ("en" :> MESSAGES_en)

RECURSIVE Holes(_)
Holes(template) ==
    IF template = <<>> THEN 0
    ELSE (IF Head(template) = Hole THEN 1 ELSE 0) + Holes(Tail(template))

\* the template as it stands, holes unfilled
RECURSIVE Unformatted(_)
Unformatted(template) ==
    IF template = <<>> THEN "" ELSE Head(template) \o Unformatted(Tail(template))

\* template.format(*args) when there are arguments enough
RECURSIVE Fill(_, _)
Fill(template, args) ==
    IF template = <<>> THEN ""
    ELSE IF Head(template) = Hole
         THEN PyStr(Head(args)) \o Fill(Tail(template), Tail(args))
         ELSE Head(template) \o Fill(Tail(template), args)

\* a "{" that opens no replacement field: str.format raises ValueError on it
OpenBrace == "{"

\* a key is text that str.format may later read as a format string, so it is
\* kept as its pieces like a template; KeyText is the str itself
KeyText(key) == Unformatted(key)

\* a value dict.get cannot hash (a list or a dict, as JSON can carry in
\* "locale"): _messages.get raises TypeError on it, line 463
Unhashable == "<unhashable>"

Hashable(v) == v # Unhashable

\* the TypeError of line 463 leaving get_localized_message
RaisedTypeError == "<raise TypeError>"

\* line 464: f"Missing message for key: {key}", which line 467 then formats
MissingMessage(key) == <<"Missing message for key: ">> \o key

\* the format string has a brace str.format cannot parse
Malformed(template) == \E i \in 1..Len(template) : template[i] = OpenBrace

\* lines 466-473: message_template.format(*args) inside the try; IndexError
\* (arguments run out) and any other exception return the template as it is
Format(message_template, args) ==
    IF Malformed(message_template) THEN Unformatted(message_template)
    ELSE IF Len(args) < Holes(message_template) THEN Unformatted(message_template)
    ELSE Fill(message_template, args)

\* lines 463-473; the two lookups are made before the try
get_localized_message(key, locale, args) ==
    IF ~Hashable(locale) THEN RaisedTypeError
    ELSE LET message_bundle == IF locale \in DOMAIN Messages THEN Messages[locale]
                               ELSE Messages["en"]
             message_template == IF KeyText(key) \in DOMAIN message_bundle
                                 THEN message_bundle[KeyText(key)]
                                 ELSE MissingMessage(key)
         IN  Format(message_template, args)

\* no call of get_localized_message made yet
NoMessage == [key |-> <<>>, locale |-> None, args |-> <<>>, returned |-> None]

-----------------------------------------------------------------------------
(* the requests library, as the senders use it *)

\* what one requests.post can meet: no response at all (a RequestException), or
\* a response with a status and a body that is JSON or is not
NoResponse == [kind |-> "error", status |-> 0, json |-> FALSE]

Answer(status, json) == [kind |-> "response", status |-> status, json |-> json]

HttpOutcome ==
    {NoResponse, Answer(200, TRUE), Answer(200, FALSE), Answer(304, TRUE),
     Answer(404, TRUE)}

\* Response.raise_for_status raises HTTPError for 4xx and 5xx only (line 306)
RaisesForStatus(status) == 400 <= status /\ status < 600

\* a 2xx status
Is2xx(status) == 200 <= status /\ status < 300

\* the try block every sender ends with (lines 302-312, 359-368, 427-436):
\* post, raise_for_status, print(... response.json() ...), return True; only
\* requests.exceptions.RequestException is caught. response.json() raises on a
\* body that is not JSON: requests.exceptions.JSONDecodeError (a
\* RequestException, caught) in requests >= 2.27, a plain ValueError (not
\* caught) before that.
TryPost(h) ==
    IF h.kind = "error" THEN "False"
    ELSE IF RaisesForStatus(h.status) THEN "False"
    ELSE IF h.json THEN "True"
    ELSE IF jsonErrorCaught THEN "False"
    ELSE "raise"

-----------------------------------------------------------------------------
(* senders/ *)

Pad2(n) == IF n < 10 THEN "0" \o ToString(n) ELSE ToString(n)

Pad4(n) ==
    IF n < 10 THEN "000" \o ToString(n)
    ELSE IF n < 100 THEN "00" \o ToString(n)
    ELSE IF n < 1000 THEN "0" \o ToString(n)
    ELSE ToString(n)

\* date.strftime("%d-%m-%Y")
Strftime(date) == Pad2(date.d) \o "-" \o Pad2(date.m) \o "-" \o Pad4(date.y)

\* lines 275, 343, 406
ExpiryDateFormatted(req) ==
    IF req.expiry_date # NoDate THEN Strftime(req.expiry_date) ELSE "N/A"

\* the sender constructors, lines 255-259, 330-332, 386-390: attributes are
\* copied from the configuration and nothing is checked
WhatsAppSender(cfg) ==
    [access_token         |-> cfg.WHATSAPP_ACCESS_TOKEN,
     from_phone_number_id |-> cfg.WHATSAPP_FROM_PHONE_NUMBER_ID]

TelegramSender(cfg) == [bot_token |-> cfg.TELEGRAM_BOT_TOKEN]

ViberSender(cfg) == [auth_token |-> cfg.VIBER_AUTH_TOKEN]

\* what a send hands back to the model: its outcome and the posts it made
Sent(ret, posted) == [ret |-> ret, posted |-> posted]

\* one outbound POST: whom to, the three parameters, the text, and the answer
Post(channel, to, parameters, text, language, h) ==
    [channel |-> channel, to |-> to, parameters |-> parameters, text |-> text,
     language |-> language, answer |-> h]

\* a sender that posts again after a failed attempt
PostedWithRetry(post, ret) == IF ret = "True" THEN <<post>> ELSE <<post, post>>

\* requests.post is called once per send (lines 305, 361, 429)
Posted(post, ret) == <<post>>

\* a sender that does not check the credential
WhatsAppNotConfiguredNever(self) == FALSE

\* line 265
WhatsAppNotConfigured(self) ==
    ~Truthy(self.access_token) \/ ~Truthy(self.from_phone_number_id)

\* lines 261-312
WhatsAppSender_send(self, req, h) ==
    IF ~Truthy(req.recipient_phone_number) THEN Sent("False", <<>>)
    ELSE IF WhatsAppNotConfigured(self) THEN Sent("False", <<>>)
    ELSE LET parameters == <<req.expiry_type, ExpiryDateFormatted(req), req.action_steps>>
             post == Post("WHATSAPP", req.recipient_phone_number, parameters, None,
                          req.locale, h)
         IN  Sent(TryPost(h), Posted(post, TryPost(h)))

\* lines 334-368
TelegramSender_send(self, req, h) ==
    IF ~Truthy(req.telegram_chat_id) THEN Sent("False", <<>>)
    ELSE IF ~Truthy(self.bot_token) THEN Sent("False", <<>>)
    ELSE LET parameters == <<req.expiry_type, ExpiryDateFormatted(req), req.action_steps>>
             message_text == get_localized_message(<<"telegram.expiry.message">>,
                                                   req.locale, parameters)
             post == Post("TELEGRAM", req.telegram_chat_id, parameters, message_text,
                          None, h)
         IN  IF message_text = RaisedTypeError THEN Sent("raise", <<>>)
             ELSE Sent(TryPost(h), Posted(post, TryPost(h)))

\* lines 392-436
ViberSender_send(self, req, h) ==
    IF ~Truthy(req.viber_user_id) THEN Sent("False", <<>>)
    ELSE IF ~Truthy(self.auth_token) THEN Sent("False", <<>>)
    ELSE LET parameters == <<req.expiry_type, ExpiryDateFormatted(req), req.action_steps>>
             message_text == get_localized_message(<<"viber.expiry.message">>,
                                                   req.locale, parameters)
             post == Post("VIBER", req.viber_user_id, parameters, message_text, None, h)
         IN  IF message_text = RaisedTypeError THEN Sent("raise", <<>>)
             ELSE Sent(TryPost(h), Posted(post, TryPost(h)))

\* notification_senders, lines 30-37: the registry the application builds
AppSenders == {"WHATSAPP", "TELEGRAM", "VIBER"}

\* sender.send(request) for the sender registered under `channel`
SenderSend(channel, cfg, req, h) ==
    IF channel = "WHATSAPP" THEN WhatsAppSender_send(WhatsAppSender(cfg), req, h)
    ELSE IF channel = "TELEGRAM" THEN TelegramSender_send(TelegramSender(cfg), req, h)
    ELSE ViberSender_send(ViberSender(cfg), req, h)

-----------------------------------------------------------------------------
(* app.py: what a caller can post to /notification/sendExpiryAlert *)

\* a key the JSON object does not have
Absent == "<absent>"

\* values of expiryDate: no such key, the empty string, a JSON number, or text
\* made of three numbers joined by "-", year first ("ymd") or day first ("dmy")
DateValue(kind, order, y, m, d) ==
    [kind |-> kind, order |-> order, y |-> y, m |-> m, d |-> d]

DateAbsent == DateValue("absent", "", 0, 0, 0)
DateEmpty == DateValue("empty", "", 0, 0, 0)
DateNumber == DateValue("number", "", 0, 0, 0)

ExpiryDateInputs ==
    {DateAbsent, DateEmpty, DateNumber,
     DateValue("text", "ymd", 2025, 12, 31),     \* "2025-12-31"
     DateValue("text", "dmy", 2025, 12, 31),     \* "31-12-2025"
     DateValue("text", "ymd", 2025, 2, 30)}      \* "2025-02-30"

\* an entry of channels: a string, as its characters, or a JSON number
Str(chars) == [kind |-> "str", chars |-> chars]
Num == [kind |-> "num", chars |-> <<>>]

ChannelNameInputs ==
    {Str(<<"t", "e", "l", "e", "g", "r", "a", "m">>),
     Str(<<"V", "i", "b", "e", "r">>),
     Str(<<"W", "H", "A", "T", "S", "A", "P", "P">>),
     Str(<<"e", "m", "a", "i", "l">>),
     Str(<<"f", "a", "x">>),
     Num}

\* the optional keys of the body that hold a string when present
OptionalKeys ==
    {"recipientPhoneNumber", "telegramChatId", "viberUserId",
     "expiryType", "actionSteps", "locale"}

\* the value each optional key holds when the caller supplies it
Supplied ==
    [recipientPhoneNumber |-> "+15550100",
     telegramChatId       |-> "chat-42",
     viberUserId          |-> "viber-7",
     expiryType           |-> "Passport",
     actionSteps          |-> "Renew online.",
     locale               |-> "fr"]

\* the sets of optional keys a posted body leaves out: none, or any one
AbsentInputs == {{}} \cup {{k} : k \in OptionalKeys}

\* longest channels list a posted body carries
MaxNames == 2

\* request.get_json(): None ("none"), {} ("empty") or an object with keys
Body(kind, absent, expiryDate, channels) ==
    [body                 |-> kind,
     recipientPhoneNumber |-> IF "recipientPhoneNumber" \in absent THEN Absent
                              ELSE Supplied.recipientPhoneNumber,
     telegramChatId       |-> IF "telegramChatId" \in absent THEN Absent
                              ELSE Supplied.telegramChatId,
     viberUserId          |-> IF "viberUserId" \in absent THEN Absent
                              ELSE Supplied.viberUserId,
     expiryType           |-> IF "expiryType" \in absent THEN Absent
                              ELSE Supplied.expiryType,
     actionSteps          |-> IF "actionSteps" \in absent THEN Absent
                              ELSE Supplied.actionSteps,
     locale               |-> IF "locale" \in absent THEN Absent ELSE Supplied.locale,
     expiryDate           |-> expiryDate,
     channels             |-> channels]

NoBody == Body("none", OptionalKeys, DateAbsent, <<>>)
EmptyBody == Body("empty", OptionalKeys, DateAbsent, <<>>)

BodyInputs ==
    {NoBody, EmptyBody} \cup
    {Body("object", absent, date, names) :
        absent \in AbsentInputs,
        date \in ExpiryDateInputs,
        names \in SeqsUpTo(ChannelNameInputs, MaxNames)}

\* data.get(key) and data.get(key, default)
Get(d, key) == IF d[key] = Absent THEN None ELSE d[key]
GetOr(d, key, default) == IF d[key] = Absent THEN default ELSE d[key]

\* line 50: not data
NotData(d) == d.body \in {"none", "empty"}

DaysIn(y, m) ==
    IF m \in {4, 6, 9, 11} THEN 30
    ELSE IF m = 2
         THEN (IF (y % 4 = 0 /\ y % 100 # 0) \/ y % 400 = 0 THEN 29 ELSE 28)
         ELSE 31

\* datetime.strptime(v, '%Y-%m-%d').date(): the date, or the exception raised
Strptime(v) ==
    IF v.kind # "text" THEN [raises |-> "TypeError", date |-> NoDate]
    ELSE IF /\ v.order = "ymd"
            /\ v.y \in 1..9999
            /\ v.m \in 1..12
            /\ v.d \in 1..DaysIn(v.y, v.m)
         THEN [raises |-> "", date |-> [y |-> v.y, m |-> v.m, d |-> v.d]]
         ELSE [raises |-> "ValueError", date |-> NoDate]

\* line 57: if expiry_date_str
ExpiryDateGiven(v) == v.kind \in {"number", "text"}

\* lines 55-61: status 0 is "go on", 400 the early return, 500 the outer except
ParseExpiryDate(v) ==
    IF ~ExpiryDateGiven(v) THEN [status |-> 0, date |-> NoDate]
    ELSE LET parsed == Strptime(v)
         IN  IF parsed.raises = "" THEN [status |-> 0, date |-> parsed.date]
             ELSE IF parsed.raises = "ValueError" THEN [status |-> 400, date |-> NoDate]
             ELSE [status |-> 500, date |-> NoDate]

LowerCase == <<"a", "b", "c", "d", "e", "f", "g", "h", "i", "j", "k", "l", "m",
               "n", "o", "p", "q", "r", "s", "t", "u", "v", "w", "x", "y", "z">>
UpperCase == <<"A", "B", "C", "D", "E", "F", "G", "H", "I", "J", "K", "L", "M",
               "N", "O", "P", "Q", "R", "S", "T", "U", "V", "W", "X", "Y", "Z">>

\* str.upper, character by character
UpperChar(c) ==
    IF \E i \in 1..Len(LowerCase) : LowerCase[i] = c
    THEN UpperCase[CHOOSE i \in 1..Len(LowerCase) : LowerCase[i] = c]
    ELSE c

Upper(chars) == [i \in 1..Len(chars) |-> UpperChar(chars[i])]

\* the names of the enum's members
MemberName ==
    [c \in NotificationChannel |->
        CASE c = "EMAIL"    -> <<"E", "M", "A", "I", "L">>
          [] c = "SMS"      -> <<"S", "M", "S">>
          [] c = "WHATSAPP" -> <<"W", "H", "A", "T", "S", "A", "P", "P">>
          [] c = "TELEGRAM" -> <<"T", "E", "L", "E", "G", "R", "A", "M">>
          [] c = "VIBER"    -> <<"V", "I", "B", "E", "R">>]

\* NotificationChannel[name] finds a member
IsMember(chars) == \E c \in NotificationChannel : MemberName[c] = chars
Member(chars) == CHOOSE c \in NotificationChannel : MemberName[c] = chars

\* lines 64-70: the entries are converted in order; the first that fails ends
\* the call, with 400 for an unknown name (KeyError) and, through the outer
\* except, 500 for an entry that has no upper() (AttributeError)
RECURSIVE ParseChannels(_, _)
ParseChannels(names, channels) ==
    IF names = <<>> THEN [status |-> 0, channels |-> channels]
    ELSE LET channel_name == Head(names)
         IN  IF channel_name.kind # "str" THEN [status |-> 500, channels |-> <<>>]
             ELSE IF ~IsMember(Upper(channel_name.chars))
                  THEN [status |-> 400, channels |-> <<>>]
                  ELSE ParseChannels(Tail(names),
                                     Append(channels, Member(Upper(channel_name.chars))))

\* lines 73-85
BuildRequest(d, expiry_date, channels) ==
    NotificationRequest(Get(d, "recipientPhoneNumber"),
                        Get(d, "telegramChatId"),
                        Get(d, "viberUserId"),
                        Get(d, "expiryType"),
                        expiry_date,
                        Get(d, "actionSteps"),
                        channels,
                        GetOr(d, "locale", "en"))

-----------------------------------------------------------------------------
(* config.py and the application, app.py *)

Credentials ==
    {"WHATSAPP_ACCESS_TOKEN", "WHATSAPP_FROM_PHONE_NUMBER_ID",
     "TELEGRAM_BOT_TOKEN", "VIBER_AUTH_TOKEN"}

\* class Config, lines 110-128: os.getenv gives None for a variable not set
Config(unset) ==
    [WHATSAPP_ACCESS_TOKEN         |-> IF "WHATSAPP_ACCESS_TOKEN" \in unset THEN None
                                       ELSE "wa-token",
     WHATSAPP_FROM_PHONE_NUMBER_ID |-> IF "WHATSAPP_FROM_PHONE_NUMBER_ID" \in unset THEN None
                                       ELSE "wa-phone-id",
     TELEGRAM_BOT_TOKEN            |-> IF "TELEGRAM_BOT_TOKEN" \in unset THEN None
                                       ELSE "tg-token",
     VIBER_AUTH_TOKEN              |-> IF "VIBER_AUTH_TOKEN" \in unset THEN None
                                       ELSE "viber-token"]

\* the environments tried: every credential set, or exactly one of them not set
ConfigInputs == {Config({})} \cup {Config({c}) : c \in Credentials}

\* lines 25-27: no constructor inspects its configuration
ConstructorRaises(cfg) == FALSE

\* the process before app.py has run
Init ==
    /\ pc = "boot"
    /\ senders = {}
    /\ config \in ConfigInputs
    /\ jsonErrorCaught \in BOOLEAN
    /\ data = NoBody
    /\ request = NoRequest
    /\ idx = 1
    /\ overall_success = FALSE
    /\ calls = <<>>
    /\ result = "pending"
    /\ response = 0
    /\ message = NoMessage

\* lines 19-40: the senders and the service are constructed
CreateApp ==
    /\ pc = "boot"
    /\ IF ConstructorRaises(config)
       THEN /\ pc' = "crashed"
            /\ UNCHANGED senders
       ELSE /\ pc' = "idle"
            /\ senders' = AppSenders
    /\ UNCHANGED <<config, jsonErrorCaught, data, request, idx, overall_success,
                   calls, result, response, message>>

\* lines 48-85: what the endpoint makes of the body before it dispatches:
\* a status to answer with at once, or (status 0) the request to dispatch
Validate(d) ==
    IF NotData(d) THEN [status |-> 400, request |-> NoRequest]
    ELSE LET date == ParseExpiryDate(d.expiryDate)
         IN  IF date.status # 0 THEN [status |-> date.status, request |-> NoRequest]
             ELSE LET parsed == ParseChannels(d.channels, <<>>)
                  IN  IF parsed.status # 0
                      THEN [status |-> parsed.status, request |-> NoRequest]
                      ELSE [status |-> 0,
                            request |-> BuildRequest(d, date.date, parsed.channels)]

\* send_expiry_alert from its entry to the call of send_notification, lines 43-88
Receive ==
    /\ pc = "idle"
    /\ \E d \in BodyInputs :
          /\ data' = d
          /\ LET checked == Validate(d)
             IN  IF checked.status # 0
                 THEN /\ response' = checked.status
                      /\ pc' = "responded"
                      /\ UNCHANGED <<request, idx, overall_success, result>>
                 ELSE /\ EnterSendNotification(checked.request)
                      /\ UNCHANGED response
    /\ UNCHANGED <<senders, config, jsonErrorCaught, calls, message>>

\* one pass of send_notification's loop, with the registered sender posting to
\* its provider
Iterate ==
    \E h \in HttpOutcome :
        LET channel == ChannelAt(request.channels, idx)
            sent == IF pc = "loop" /\ idx <= Len(request.channels) /\ channel \in AppSenders
                    THEN SenderSend(channel, config, request, h)
                    ELSE Sent("False", <<>>)
        IN  LoopBody(sent.ret, sent.posted)

\* line 236
Return ==
    /\ ReturnOverall
    /\ pc' = "done"
    /\ UNCHANGED <<senders, config, jsonErrorCaught, data, request, idx,
                   overall_success, calls, response, message>>

\* lines 88-97: the answer to the caller
Respond ==
    /\ pc \in {"done", "raised"}
    /\ response' = (IF result = "True" THEN 200 ELSE 500)
    /\ pc' = "responded"
    /\ UNCHANGED <<senders, config, jsonErrorCaught, data, request, idx,
                   overall_success, calls, result, message>>

Next == CreateApp \/ Receive \/ Iterate \/ Return \/ Respond

Spec == Init /\ [][Next]_vars

-----------------------------------------------------------------------------
(* SpecService: NotificationService alone *)

\* NotificationService(senders), lines 206-207, for any registry
ServiceInit ==
    /\ pc = "idle"
    /\ senders \in SUBSET NotificationChannel
    /\ config = Config({})
    /\ jsonErrorCaught = TRUE
    /\ data = NoBody
    /\ request = NoRequest
    /\ idx = 1
    /\ overall_success = FALSE
    /\ calls = <<>>
    /\ result = "pending"
    /\ response = 0
    /\ message = NoMessage

\* a caller invokes send_notification(request)
ServiceCall ==
    /\ pc = "idle"
    /\ \E channels \in SeqsUpTo(NotificationChannel, MaxChannels) :
          EnterSendNotification(RequestOf(channels))
    /\ UNCHANGED <<senders, config, jsonErrorCaught, data, calls, response, message>>

\* one pass of the loop; the sender returns true, returns false or raises
ServiceIterate == \E outcome \in SendOutcome : LoopBody(outcome, <<>>)

ServiceReturn ==
    /\ ReturnOverall
    /\ pc' = "done"
    /\ UNCHANGED <<senders, config, jsonErrorCaught, data, request, idx,
                   overall_success, calls, response, message>>

ServiceNext == ServiceCall \/ ServiceIterate \/ ServiceReturn

SpecService == ServiceInit /\ [][ServiceNext]_vars

-----------------------------------------------------------------------------
(* Claims about NotificationService, checked under SpecService *)

Attempted == [i \in 1..Len(calls) |-> calls[i].channel]

Registered(channel) == channel \in senders

SomeCall(outcome) == \E i \in 1..Len(calls) : calls[i].outcome = outcome

\* C1: for a request with a non-empty channel list, send_notification returns
\* true if and only if at least one sender invoked during the call returned
\* true; skipped channels and senders that returned false or raised never
\* contribute a success.
C1_TrueIffSomeSenderReturnedTrue ==
    (pc = "done" /\ Len(request.channels) > 0)
        => /\ result \in {"True", "False"}
           /\ (result = "True") <=> SomeCall("True")

\* the call returned true although one sender raised and one channel was skipped
C1_Witness ==
    /\ pc = "done"
    /\ result = "True"
    /\ SomeCall("raise")
    /\ \E i \in 1..Len(request.channels) : ~Registered(request.channels[i])

\* C2: for a request whose channels list is empty, send_notification returns
\* false and no sender's send is invoked.
C2_EmptyChannelsReturnsFalse ==
    (pc # "idle" /\ Len(request.channels) = 0)
        => /\ pc = "done"
           /\ result = "False"
           /\ calls = <<>>

\* an empty request was dispatched over a registry that has senders
C2_Witness ==
    /\ pc = "done"
    /\ Len(request.channels) = 0
    /\ senders # {}

\* C3: the senders are invoked one at a time in the order of request.channels,
\* and every requested channel that has a registered sender is attempted
\* whatever earlier channels did: while the loop is at position idx exactly the
\* registered channels before idx have been attempted, in order, and at the
\* return exactly the registered channels of the whole list.
C3_AttemptsFollowRequestOrder ==
    /\ pc = "loop" =>
          Attempted = SelectSeq(SubSeq(request.channels, 1, idx - 1), Registered)
    /\ pc = "done" =>
          Attempted = SelectSeq(request.channels, Registered)

\* channels = [TELEGRAM, VIBER], Telegram succeeded, Viber failed
C3_Witness ==
    /\ pc = "done"
    /\ request.channels = <<"TELEGRAM", "VIBER">>
    /\ calls = <<Call("TELEGRAM", "True", <<>>), Call("VIBER", "False", <<>>)>>
    /\ result = "True"

\* C4: send_notification never raises to its caller: an unregistered channel is
\* a skip, a sender's exception is that channel's failure, and when only
\* unregistered channels are requested the call returns false.
C4_NeverRaises ==
    /\ pc # "raised"
    /\ result # "raised"
    /\ (pc = "done" /\ \A i \in 1..Len(request.channels) : ~Registered(request.channels[i]))
          => (result = "False" /\ calls = <<>>)

\* a sender raised, a channel was skipped, and the call still returned
C4_Witness ==
    /\ pc = "done"
    /\ SomeCall("raise")
    /\ \E i \in 1..Len(request.channels) : ~Registered(request.channels[i])
    /\ result = "False"

-----------------------------------------------------------------------------
(* Claims about the senders and the endpoint, checked under Spec *)

\* the posts of the i-th sender call that a 2xx response answered
AnsweredWith2xx(i) ==
    {k \in 1..Len(calls[i].posted) :
        /\ calls[i].posted[k].answer.kind = "response"
        /\ Is2xx(calls[i].posted[k].answer.status)}

\* C5: a sender's send returns true only when the outbound POST was made and
\* answered with a 2xx status, returns false for every other terminal
\* condition, and no exception ever escapes send.
C5_TrueOnlyOn2xxAndNeverRaises ==
    \A i \in 1..Len(calls) :
        /\ calls[i].outcome \in {"True", "False"}
        /\ calls[i].outcome = "True" => AnsweredWith2xx(i) # {}

\* C6: whenever the request has the channel's addressing field, the sender has
\* its credentials and the provider answers the POST with a 2xx status, send
\* returns true whatever the response body contains, and send_notification
\* returns true.
C6_2xxMeansTrueWhateverTheBody ==
    \A i \in 1..Len(calls) :
        AnsweredWith2xx(i) # {}
            => /\ calls[i].outcome = "True"
               /\ result \in {"pending", "True"}

\* the request lacks the addressing field that `channel` needs
LacksAddress(channel, req) ==
    \/ channel = "WHATSAPP" /\ req.recipient_phone_number \in {None, ""}
    \/ channel = "TELEGRAM" /\ req.telegram_chat_id \in {None, ""}
    \/ channel = "VIBER" /\ req.viber_user_id \in {None, ""}

\* the environment lacks a credential that `channel` needs
LacksCredential(channel, cfg) ==
    \/ channel = "WHATSAPP" /\ cfg.WHATSAPP_ACCESS_TOKEN = None
    \/ channel = "WHATSAPP" /\ cfg.WHATSAPP_FROM_PHONE_NUMBER_ID = None
    \/ channel = "TELEGRAM" /\ cfg.TELEGRAM_BOT_TOKEN = None
    \/ channel = "VIBER" /\ cfg.VIBER_AUTH_TOKEN = None

CallsOf(channel) == {i \in 1..Len(calls) : calls[i].channel = channel}

Occurrences(channel, channels) == {i \in 1..Len(channels) : channels[i] = channel}

\* C8 as stated: within one send_notification invocation each channel's sender
\* is attempted at most once and each attempt makes at most one outbound call,
\* for every channel list, lists that name a channel more than once included.
C8_AtMostOnceForEveryList ==
    /\ \A channel \in NotificationChannel : Cardinality(CallsOf(channel)) <= 1
    /\ \A i \in 1..Len(calls) : Len(calls[i].posted) <= 1

\* C8 as amended: a channel's sender is attempted once for each time the
\* channel appears in request.channels (so at most once for a channel the list
\* names once), never more, and each attempt makes at most one outbound call.
C8_OncePerOccurrence ==
    /\ \A channel \in NotificationChannel :
          Cardinality(CallsOf(channel)) <= Cardinality(Occurrences(channel, request.channels))
    /\ pc \in {"done", "responded"} =>
          \A channel \in AppSenders :
              Cardinality(CallsOf(channel)) = Cardinality(Occurrences(channel, request.channels))
    /\ \A i \in 1..Len(calls) : Len(calls[i].posted) <= 1

\* channels ["telegram", "telegram"]: Telegram's sender ran twice, one POST each
C8_Witness ==
    /\ pc = "responded"
    /\ request.channels = <<"TELEGRAM", "TELEGRAM">>
    /\ Len(calls) = 2
    /\ \A i \in 1..Len(calls) : Len(calls[i].posted) = 1

\* the body is one the endpoint is to reject: missing or empty, an expiryDate
\* that is present and is not a YYYY-MM-DD date, or a channels entry that is
\* not the name of a channel in any letter case
DateParses(v) == v.kind = "text" /\ Strptime(v).raises = ""

NamesAChannel(entry) == entry.kind = "str" /\ IsMember(Upper(entry.chars))

Invalid(d) ==
    \/ d.body \in {"none", "empty"}
    \/ d.expiryDate.kind # "absent" /\ ~DateParses(d.expiryDate)
    \/ \E i \in 1..Len(d.channels) : ~NamesAChannel(d.channels[i])

\* C9: validation strictly precedes dispatch: a body that is missing or empty,
\* whose expiryDate is present but not parseable as YYYY-MM-DD, or that has a
\* channels entry matching no known channel name, is rejected with 400 and
\* send_notification, and so every sender, is never invoked for that call.
C9_InvalidBodyIsRejectedBeforeDispatch ==
    (pc \notin {"boot", "idle", "crashed"} /\ Invalid(data))
        => /\ pc = "responded"
           /\ response = 400
           /\ result = "pending"
           /\ calls = <<>>

\* send_notification has been entered for the body received
Dispatched == pc = "loop" \/ result # "pending"

\* C10: the request that reaches the senders carries the documented defaults
\* for fields the caller did not supply (expiry_type "Certificate",
\* action_steps "Please renew your credential.", locale "en"), and supplied
\* fields unchanged.
C10_DefaultsForAbsentFields ==
    Dispatched =>
        /\ request.expiry_type = GetOr(data, "expiryType", "Certificate")
        /\ request.action_steps = GetOr(data, "actionSteps", "Please renew your credential.")
        /\ request.locale = GetOr(data, "locale", "en")
        /\ \A i \in 1..Len(calls) : \A k \in 1..Len(calls[i].posted) :
              /\ calls[i].posted[k].parameters[1] = request.expiry_type
              /\ calls[i].posted[k].parameters[3] = request.action_steps

-----------------------------------------------------------------------------
(* SpecMessages: get_localized_message alone *)

\* keys a caller can name: the three of en.MESSAGES, one no table has, and two
\* no table has whose text holds braces ("expiry.{}" and "expiry.{")
KeyInputs ==
    {<<"whatsapp.expiry.message">>, <<"telegram.expiry.message">>,
     <<"viber.expiry.message">>, <<"email.expiry.message">>,
     <<"expiry.", Hole>>, <<"expiry.", OpenBrace>>}

\* locales: the one with a table, one without, JSON null, and a JSON array
LocaleInputs == {"en", "fr", None, Unhashable}

\* the positional arguments: text, or None as an absent expiryType arrives
ArgInputs == {"Passport", "31-12-2025", None}

MessagesInit ==
    /\ pc = "resolve"
    /\ senders = {}
    /\ config = Config({})
    /\ jsonErrorCaught = TRUE
    /\ data = NoBody
    /\ request = NoRequest
    /\ idx = 1
    /\ overall_success = FALSE
    /\ calls = <<>>
    /\ result = "pending"
    /\ response = 0
    /\ message = NoMessage

\* a caller invokes get_localized_message(key, locale, *args)
Resolve ==
    /\ pc = "resolve"
    /\ \E key \in KeyInputs, locale \in LocaleInputs,
          args \in SeqsUpTo(ArgInputs, MaxArgs) :
          message' = [key |-> key, locale |-> locale, args |-> args,
                      returned |-> get_localized_message(key, locale, args)]
    /\ pc' = "resolved"
    /\ UNCHANGED <<senders, config, jsonErrorCaught, data, request, idx,
                   overall_success, calls, result, response>>

MessagesNext == Resolve

SpecMessages == MessagesInit /\ [][MessagesNext]_vars

-----------------------------------------------------------------------------
(* Claim about the localisation store, checked under SpecMessages *)

\* the table the claim has the lookup use: the locale's own, else that of "en"
ChosenTable(locale) ==
    IF locale \in DOMAIN Messages THEN Messages[locale] ELSE Messages["en"]

\* a template of three placeholders with its first three arguments put in, in
\* order
Substituted(t, args) ==
    t[1] \o PyStr(args[1]) \o t[3] \o PyStr(args[2]) \o t[5] \o PyStr(args[3]) \o t[7]

\* C11: get_localized_message never raises for any key, locale and argument
\* list, and degrades as specified: a locale with no table uses the "en"
\* table; a key absent from the chosen table yields the sentinel string naming
\* the missing key; a template with more placeholders than arguments yields
\* the unformatted template; otherwise the arguments are substituted
\* positionally in order.
C11_NeverRaisesAndDegradesAsSpecified ==
    pc = "resolved" =>
        LET table == ChosenTable(message.locale)
            text  == KeyText(message.key)
        IN  /\ message.returned # RaisedTypeError
            /\ text \notin DOMAIN table
                  => message.returned = "Missing message for key: " \o text
            /\ (text \in DOMAIN table /\ Len(message.args) < Holes(table[text]))
                  => message.returned = Unformatted(table[text])
            /\ (text \in DOMAIN table /\ Len(message.args) >= Holes(table[text]))
                  => message.returned = Substituted(table[text], message.args)

====
